---- MODULE Spec2Model ----
(***************************************************************************)
(* A model of Main.py, the Mac/Windows optimisation utility: the menu      *)
(* loop, the system summary with its battery probe, the cache clearing,    *)
(* the outdated-package listing parsers with the upgrade selection, and    *)
(* the process monitor with its kill action.                               *)
(*                                                                         *)
(* A Python string is a sequence of one-character strings; the characters  *)
(* "NL" and "sup2" stand for the newline and for the superscript two       *)
(* (U+00B2), a character for which str.isdigit() is true and int() raises. *)
(* A Python value that may be None is a record [t, s].                     *)
(***************************************************************************)
EXTENDS Integers, Sequences, FiniteSets, TLC

VARIABLES
  platform,   \* platform.system(), read once at start
  pc,         \* where the program is: "menu", "prompt", "dispatch", ..., "done"
  choice,     \* the menu choice of this iteration
  exc,        \* the exception that reached the menu loop in this iteration
  rendered,   \* the messages printed in this iteration, in order
  executed,   \* the os.system commands run in this iteration, in order
  sized,      \* the paths whose size was probed (du) in this iteration
  probe,      \* what the environment answered to the summary's probes
  table,      \* the rows of the summary table printed
  battery,    \* what get_battery_health returned or raised
  upd,        \* the locals of check_system_updates
  mon         \* the locals of monitor_usage

vars ==
  <<platform, pc, choice, exc, rendered, executed, sized, probe, table, battery, upd, mon>>

outVars == <<rendered, executed, sized>>

sumVars == <<probe, table, battery>>

-----------------------------------------------------------------------------
(* Python strings *)

DecimalChars == {"0", "1", "2", "3", "4", "5", "6", "7", "8", "9"}

DigitChars == DecimalChars \cup {"sup2"}

IsSpace(c) == c \in {" ", "NL"}

DigitVal(c) ==
  CASE c = "0" -> 0 [] c = "1" -> 1 [] c = "2" -> 2 [] c = "3" -> 3
    [] c = "4" -> 4 [] c = "5" -> 5 [] c = "6" -> 6 [] c = "7" -> 7
    [] c = "8" -> 8 [] c = "9" -> 9

DigitChar(n) ==
  CASE n = 0 -> "0" [] n = 1 -> "1" [] n = 2 -> "2" [] n = 3 -> "3"
    [] n = 4 -> "4" [] n = 5 -> "5" [] n = 6 -> "6" [] n = 7 -> "7"
    [] n = 8 -> "8" [] n = 9 -> "9"

RECURSIVE LStrip(_)
LStrip(s) == IF s # <<>> /\ IsSpace(Head(s)) THEN LStrip(Tail(s)) ELSE s

RECURSIVE RStrip(_)
RStrip(s) ==
  IF s # <<>> /\ IsSpace(s[Len(s)]) THEN RStrip(SubSeq(s, 1, Len(s) - 1)) ELSE s

\* str.strip()
Strip(s) == RStrip(LStrip(s))

\* str.lower(), on the letters the inputs use
Lower(s) ==
  [i \in 1..Len(s) |-> CASE s[i] = "A" -> "a" [] s[i] = "N" -> "n" [] OTHER -> s[i]]

\* the least index of s whose character is in set, Len(s) + 1 when there is none
FirstIn(s, set) ==
  IF \E i \in 1..Len(s) : s[i] \in set
  THEN CHOOSE i \in 1..Len(s) : s[i] \in set /\ \A j \in 1..(i - 1) : s[j] \notin set
  ELSE Len(s) + 1

\* str.split(sep): empty tokens are kept
RECURSIVE SplitOn(_, _)
SplitOn(s, sep) ==
  LET i == FirstIn(s, {sep})
  IN IF i > Len(s) THEN <<s>>
     ELSE <<SubSeq(s, 1, i - 1)>> \o SplitOn(SubSeq(s, i + 1, Len(s)), sep)

\* str.split(): runs of whitespace separate, no empty token
RECURSIVE SplitWS(_)
SplitWS(s) ==
  LET t == LStrip(s)
      j == FirstIn(t, {" ", "NL"})
  IN IF t = <<>> THEN <<>>
     ELSE <<SubSeq(t, 1, j - 1)>> \o SplitWS(SubSeq(t, j, Len(t)))

\* str.splitlines(): no line for the empty string or after a final newline
RECURSIVE SplitLines(_)
SplitLines(s) ==
  LET i == FirstIn(s, {"NL"})
  IN IF s = <<>> THEN <<>>
     ELSE IF i > Len(s) THEN <<s>>
     ELSE <<SubSeq(s, 1, i - 1)>> \o SplitLines(SubSeq(s, i + 1, Len(s)))

\* str.startswith(prefix)
StartsWith(s, prefix) ==
  Len(s) >= Len(prefix) /\ SubSeq(s, 1, Len(prefix)) = prefix

\* str.isdigit()
IsDigit(s) == s # <<>> /\ \A i \in 1..Len(s) : s[i] \in DigitChars

\* int(s) succeeds (the inputs hold no sign character)
IntOK(s) ==
  LET t == Strip(s) IN t # <<>> /\ \A i \in 1..Len(t) : t[i] \in DecimalChars

RECURSIVE DecimalValue(_)
DecimalValue(t) ==
  IF t = <<>> THEN 0
  ELSE 10 * DecimalValue(SubSeq(t, 1, Len(t) - 1)) + DigitVal(t[Len(t)])

\* int(s), where IntOK(s)
IntVal(s) == DecimalValue(Strip(s))

\* str(n) for n >= 0
RECURSIVE Digits(_)
Digits(n) == IF n < 10 THEN <<DigitChar(n)>> ELSE Digits(n \div 10) \o <<DigitChar(n % 10)>>

\* str(n)
IntStr(n) == IF n < 0 THEN <<"-">> \o Digits(0 - n) ELSE Digits(n)

\* the lines joined by newlines, as a command prints them
RECURSIVE JoinLines(_)
JoinLines(ls) ==
  IF ls = <<>> THEN <<>>
  ELSE IF Len(ls) = 1 THEN ls[1]
  ELSE ls[1] \o <<"NL">> \o JoinLines(Tail(ls))

-----------------------------------------------------------------------------
(* Python values and results *)

NoneV == [t |-> "None", s |-> <<>>]

Str(s) == [t |-> "str", s |-> s]

\* truthiness of None and of a string
Truthy(v) == v.t = "str" /\ v.s # <<>>

NA == <<"N", "/", "A">>

Return(v) == [exc |-> "none", val |-> v]

Raise(e) == [exc |-> e, val |-> NoneV]

Msg(m, a) == [msg |-> m, arg |-> a]

Platforms == {"Darwin", "Windows", "Other"}

IS_MAC == platform = "Darwin"

IS_WIN == platform = "Windows"

\* what subprocess.run did: spawned the shell (with this stdout) or raised
Failed == [spawned |-> FALSE, stdout |-> <<>>]

Output(text) == [spawned |-> TRUE, stdout |-> text]

run_command(o) == IF o.spawned THEN Str(Strip(o.stdout)) ELSE NoneV

-----------------------------------------------------------------------------
(* get_battery_health *)

DesignKey == <<"\"", "D", "e", "s", "i", "g", "n", "C", "a", "p", "a", "c", "i", "t", "y", "\"", "=">>

\* re.search(r'"DesignCapacity"=(\d+)', s): the first place the key is
\* followed by a digit, and the longest run of digits there
ReSearchDesign(s) ==
  LET k == Len(DesignKey)
      At(i) == /\ i + k <= Len(s)
               /\ SubSeq(s, i, i + k - 1) = DesignKey
               /\ s[i + k] \in DecimalChars
      first == CHOOSE i \in 1..Len(s) : At(i) /\ \A j \in 1..(i - 1) : ~At(j)
      rest == SubSeq(s, first + k, Len(s))
      stop == FirstIn(rest, {c \in {rest[i] : i \in 1..Len(rest)} : c \notin DecimalChars})
  IN IF \E i \in 1..Len(s) : At(i)
     THEN [found |-> TRUE, group1 |-> SubSeq(rest, 1, stop - 1)]
     ELSE [found |-> FALSE, group1 |-> <<>>]

\* f"{(m / d) * 100:.2f}%": the quotient in hundredths of a percent, rounded
\* to nearest (ties to even), printed with two decimals
FormatHealth(m, d) ==
  LET q == (10000 * m) \div d
      r == (10000 * m) % d
      h == IF 2 * r > d \/ (2 * r = d /\ q % 2 = 1) THEN q + 1 ELSE q
  IN Digits(h \div 100) \o <<".", DigitChar((h % 100) \div 10), DigitChar(h % 10), "%">>

BatteryHealthMac(maxOut, dataOut) ==
  LET max_capacity == run_command(maxOut)
      data_str == run_command(dataOut)
      match == ReSearchDesign(data_str.s)
  IN IF data_str = NoneV THEN Raise("TypeError")
     ELSE IF Truthy(max_capacity) /\ match.found
     THEN IF ~IntOK(max_capacity.s) THEN Raise("ValueError")
          ELSE IF IntVal(match.group1) = 0 THEN Raise("ZeroDivisionError")
          ELSE Return(Str(FormatHealth(IntVal(max_capacity.s), IntVal(match.group1))))
     ELSE Return(Str(NA))

\* psutil: "ImportError", "no battery", or a battery with this percentage
BatteryHealthWin(ps) ==
  IF ps.state = "ImportError" THEN Return(Str(<<"p", "s", "u", "t", "i", "l", " ", "n", "o", "t", " ", "i", "n", "s", "t", "a", "l", "l", "e", "d">>))
  ELSE IF ps.state = "battery" THEN Return(Str(Digits(ps.percent) \o <<"%">>))
  ELSE Return(Str(NA))

get_battery_health(maxOut, dataOut, ps) ==
  IF IS_MAC THEN BatteryHealthMac(maxOut, dataOut)
  ELSE IF IS_WIN THEN BatteryHealthWin(ps)
  ELSE Return(Str(NA))

-----------------------------------------------------------------------------
(* system_summary *)

\* what the environment answers to the probes of one summary
CmdOutcomes == {Failed, Output(<<>>), Output(<<" ", "9", "G", "i", "NL">>)}

MaxCapacityOutcomes == {Failed, Output(<<>>), Output(<<"a", "b", "c", "NL">>), Output(<<"4", "5", "NL">>)}

DesignCapacityOutcomes ==
  { Failed, Output(<<>>),
    Output(<<"\"", "D", "e", "s", "i", "g", "n", "C", "a", "p", "a", "c", "i", "t", "y", "\"", " ", "=", " ", "5", "0">>),
    Output(<<"{", "\"", "D", "e", "s", "i", "g", "n", "C", "a", "p", "a", "c", "i", "t", "y", "\"", "=", "5", "0", ",", "\"", "x", "\"", "=", "1", "}">>),
    Output(<<"\"", "D", "e", "s", "i", "g", "n", "C", "a", "p", "a", "c", "i", "t", "y", "\"", "=", "7", "NL">>),
    Output(<<"\"", "D", "e", "s", "i", "g", "n", "C", "a", "p", "a", "c", "i", "t", "y", "\"", "=", "0">>) }

PsutilOutcomes ==
  { [state |-> "ImportError", percent |-> 0],
    [state |-> "no battery", percent |-> 0],
    [state |-> "battery", percent |-> 87] }

NoProbe ==
  [ uptime |-> Failed, free_disk |-> Failed, free_ram |-> Failed, cpu_temp |-> Failed,
    max_capacity |-> Failed, design_capacity |-> Failed,
    psutil |-> [state |-> "no battery", percent |-> 0] ]

Probes ==
  [ uptime : CmdOutcomes, free_disk : CmdOutcomes, free_ram : CmdOutcomes,
    cpu_temp : CmdOutcomes, max_capacity : MaxCapacityOutcomes,
    design_capacity : DesignCapacityOutcomes, psutil : PsutilOutcomes ]

\* the probes the platform's branch does not run are left as in NoProbe
ProbesRun(p) ==
  IF IS_MAC THEN p.psutil = NoProbe.psutil
  ELSE IF IS_WIN
  THEN p.cpu_temp = Failed /\ p.max_capacity = Failed /\ p.design_capacity = Failed
  ELSE p = NoProbe

\* Table.add_row: a None cell is rendered empty
Cell(v) == IF v = NoneV THEN <<>> ELSE v.s

Row(metric, v) == [metric |-> metric, value |-> Cell(v)]

\* the five values of the summary; b is what get_battery_health gave
SummaryValues(p, b) ==
  IF IS_MAC
  THEN [ uptime |-> run_command(p.uptime), free_disk |-> run_command(p.free_disk),
         free_ram |-> run_command(p.free_ram), battery_health |-> b.val,
         cpu_temp |-> run_command(p.cpu_temp) ]
  ELSE IF IS_WIN
  THEN [ uptime |-> run_command(p.uptime), free_disk |-> run_command(p.free_disk),
         free_ram |-> run_command(p.free_ram), battery_health |-> b.val,
         cpu_temp |-> Str(NA) ]
  ELSE [ uptime |-> Str(NA), free_disk |-> Str(NA), free_ram |-> Str(NA),
         battery_health |-> Str(NA), cpu_temp |-> Str(NA) ]

SummaryTable(v) ==
  << Row("Uptime", v.uptime), Row("Free Disk Space", v.free_disk),
     Row("Free RAM", v.free_ram), Row("Battery Health", v.battery_health),
     Row("CPU Temperature", v.cpu_temp) >>

NoBattery == [exc |-> "not called", val |-> NoneV]

\* an exception of the battery probe leaves the try block before the table
\* is built
system_summary ==
  /\ pc = "dispatch" /\ choice = "1"
  /\ \E p \in Probes :
       /\ ProbesRun(p)
       /\ probe' = p
       /\ LET b == IF IS_MAC \/ IS_WIN
                   THEN get_battery_health(p.max_capacity, p.design_capacity, p.psutil)
                   ELSE NoBattery
          IN /\ battery' = b
             /\ IF b.exc \in {"none", "not called"}
                THEN table' = SummaryTable(SummaryValues(p, b)) /\ rendered' = <<>>
                ELSE /\ table' = <<>>
                     /\ rendered' = <<Msg("Failed to display the System stats", <<>>)>>
  /\ pc' = "menu"
  /\ executed' = <<>>
  /\ sized' = <<>>
  /\ UNCHANGED <<platform, choice, exc, upd, mon>>

-----------------------------------------------------------------------------
(* clear_cache and clear_browser_cache *)

Home == <<"/", "U", "s", "e", "r", "s", "/", "u">>

\* os.path.expanduser
ExpandUser(p) == IF p # <<>> /\ Head(p) = "~" THEN Home \o Tail(p) ELSE p

Cmd(c, a, st) == [cmd |-> c, arg |-> a, status |-> st]

\* the paths with the Windows branch taken for every platform but the Mac:
\* C9 fails with it
cache_paths_without_else ==
  IF IS_MAC THEN <<<<"~", "/", "L", "i", "b", "r", "a", "r", "y", "/", "C", "a", "c", "h", "e", "s">>, <<"/", "L", "i", "b", "r", "a", "r", "y", "/", "C", "a", "c", "h", "e", "s">>>>
  ELSE <<<<"%", "T", "E", "M", "P", "%">>, <<"C", ":", "\\", "W", "i", "n", "d", "o", "w", "s", "\\", "T", "e", "m", "p">>>>

\* the environment variables of the Windows paths keep their names
cache_paths ==
  IF IS_MAC THEN <<<<"~", "/", "L", "i", "b", "r", "a", "r", "y", "/", "C", "a", "c", "h", "e", "s">>, <<"/", "L", "i", "b", "r", "a", "r", "y", "/", "C", "a", "c", "h", "e", "s">>>>
  ELSE IF IS_WIN THEN <<<<"%", "T", "E", "M", "P", "%">>, <<"C", ":", "\\", "W", "i", "n", "d", "o", "w", "s", "\\", "T", "e", "m", "p">>>>
  ELSE <<>>

browser_cache_paths ==
  IF IS_MAC
  THEN << [browser |-> "Microsoft Edge", path |-> <<"~", "/", "L", "i", "b", "r", "a", "r", "y", "/", "C", "a", "c", "h", "e", "s", "/", "M", "i", "c", "r", "o", "s", "o", "f", "t", " ", "E", "d", "g", "e", "/", "*">>],
          [browser |-> "Safari", path |-> <<"~", "/", "L", "i", "b", "r", "a", "r", "y", "/", "C", "a", "c", "h", "e", "s", "/", "c", "o", "m", ".", "a", "p", "p", "l", "e", ".", "S", "a", "f", "a", "r", "i", "/", "*">>] >>
  ELSE IF IS_WIN
  THEN << [browser |-> "Edge", path |-> <<"%", "L", "O", "C", "A", "L", "A", "P", "P", "D", "A", "T", "A", "%", "\\", "M", "i", "c", "r", "o", "s", "o", "f", "t", "\\", "E", "d", "g", "e", "\\", "U", "s", "e", "r", " ", "D", "a", "t", "a", "\\", "D", "e", "f", "a", "u", "l", "t", "\\", "C", "a", "c", "h", "e", "\\", "*">>],
          [browser |-> "Chrome", path |-> <<"%", "L", "O", "C", "A", "L", "A", "P", "P", "D", "A", "T", "A", "%", "\\", "G", "o", "o", "g", "l", "e", "\\", "C", "h", "r", "o", "m", "e", "\\", "U", "s", "e", "r", " ", "D", "a", "t", "a", "\\", "D", "e", "f", "a", "u", "l", "t", "\\", "C", "a", "c", "h", "e", "\\", "*">>] >>
  ELSE <<>>

\* du -sh through os.popen (text is what it printed); no command on Windows
get_cache_size(text) ==
  IF IS_MAC \/ IS_WIN
  THEN LET size == IF IS_MAC THEN Strip(text) ELSE NA
       IN IF size # <<>> THEN size ELSE <<"0", "B">>
  ELSE NA

\* one browser of the loop of clear_browser_cache
ClearBrowser(b, text, st) ==
  [ rendered |-> << Msg("cache size before cleanup", get_cache_size(text)),
                    Msg("cache cleared! Current size", get_cache_size(text)) >>,
    executed |-> << IF IS_MAC THEN Cmd("rm -rf", ExpandUser(b.path), st)
                    ELSE Cmd("del /q", b.path, st) >>,
    sized |-> IF IS_MAC THEN <<ExpandUser(b.path), ExpandUser(b.path)>> ELSE <<>> ]

RECURSIVE ClearBrowsers(_, _, _)
ClearBrowsers(bs, text, st) ==
  IF bs = <<>> THEN [rendered |-> <<>>, executed |-> <<>>, sized |-> <<>>]
  ELSE LET h == ClearBrowser(Head(bs), text, st)
           t == ClearBrowsers(Tail(bs), text, st)
       IN [ rendered |-> h.rendered \o t.rendered, executed |-> h.executed \o t.executed,
            sized |-> h.sized \o t.sized ]

clear_browser_cache(text, st) == ClearBrowsers(browser_cache_paths, text, st)

\* one path of the loop of clear_cache; io holds what du -sm answered before
\* and after the deletion
ClearPath(path, io, text, st) ==
  LET expanded_path == ExpandUser(path)
      before_size == IF IS_MAC THEN run_command(io.before) ELSE NoneV
      after_size == IF IS_MAC THEN run_command(io.after) ELSE NoneV
      br == clear_browser_cache(text, st)
      du == IF IS_MAC THEN <<expanded_path>> ELSE <<>>
      both == Truthy(before_size) /\ Truthy(after_size)
      bad == both /\ ~(IntOK(before_size.s) /\ IntOK(after_size.s))
  IN [ exc |-> IF bad THEN "ValueError" ELSE "none",
       executed |-> << IF IS_MAC THEN Cmd("rm -rf", expanded_path \o <<"/", "*">>, st)
                       ELSE Cmd("del /q /s", expanded_path \o <<"\\", "*">>, st) >> \o br.executed,
       sized |-> du \o br.sized \o du,
       rendered |-> br.rendered \o
                    IF both /\ ~bad
                    THEN << Msg("Freed MB", IntStr(IntVal(before_size.s) - IntVal(after_size.s))) >>
                    ELSE <<>> ]

\* the loop over the paths: an exception ends it
RECURSIVE ClearPaths(_, _, _, _)
ClearPaths(paths, ios, text, st) ==
  IF paths = <<>> THEN [rendered |-> <<>>, executed |-> <<>>, sized |-> <<>>]
  ELSE LET h == ClearPath(Head(paths), Head(ios), text, st)
           t == IF h.exc = "none" THEN ClearPaths(Tail(paths), Tail(ios), text, st)
                ELSE [ rendered |-> <<Msg("Error clearing cache", <<>>)>>,
                       executed |-> <<>>, sized |-> <<>> ]
       IN [ rendered |-> h.rendered \o t.rendered, executed |-> h.executed \o t.executed,
            sized |-> h.sized \o t.sized ]

SizeOutcomes == {Failed, Output(<<>>), Output(<<"1", "2", "NL">>), Output(<<"7">>)}

BrowserSizeTexts == {<<>>, <<"4", ".", "0", "K", "NL">>}

\* what du -sm answers for each path; nothing is asked where du is not run
SizeAnswers ==
  IF IS_MAC
  THEN {<<a, b>> : a \in [before : SizeOutcomes, after : SizeOutcomes],
                   b \in [before : SizeOutcomes, after : SizeOutcomes]}
  ELSE {<<[before |-> Failed, after |-> Failed], [before |-> Failed, after |-> Failed]>>}

clear_cache ==
  /\ pc = "dispatch" /\ choice = "2"
  /\ \E ios \in SizeAnswers, text \in (IF IS_MAC THEN BrowserSizeTexts ELSE {<<>>}),
        st \in (IF IS_MAC \/ IS_WIN THEN {0, 1} ELSE {0}) :
       LET r == ClearPaths(cache_paths, ios, text, st)
       IN /\ rendered' = r.rendered
          /\ executed' = r.executed
          /\ sized' = r.sized
  /\ pc' = "menu"
  /\ UNCHANGED <<platform, choice, exc, sumVars, upd, mon>>

-----------------------------------------------------------------------------
(* check_system_updates: gathering the outdated list *)

MaxLines == 3

\* the sequences of at most n elements of S
RECURSIVE SeqsUpTo(_, _)
SeqsUpTo(S, n) ==
  IF n = 0 THEN {<<>>}
  ELSE LET shorter == SeqsUpTo(S, n - 1)
       IN shorter \cup {Append(s, x) : s \in {t \in shorter : Len(t) = n - 1}, x \in S}

BrewLines == {<<"p", "k", "g", "A">>, <<"p", "k", "g", "B">>, <<>>}

ChocoLines ==
  {<<"N", "a", "m", "e", "|", "V", "e", "r", "s", "i", "o", "n", "|", "A", "v", "a", "i", "l", "a", "b", "l", "e">>, <<"p", "k", "g", "A", "|", "1", ".", "0", "|", "1", ".", "1">>, <<"p", "k", "g", "B", "|", "2", ".", "0", "|", "2", ".", "1">>, <<"p", "k", "g", "C", " ", "3", ".", "0", " ", "3", ".", "1">>, <<" ">>}

WingetLines ==
  {<<"N", "a", "m", "e", " ", " ", "I", "d", " ", " ", "V", "e", "r", "s", "i", "o", "n">>, <<"F", "o", "o", " ", " ", "f", "o", "o", ".", "i", "d", " ", " ", "1", ".", "0">>, <<"B", "a", "r", " ", " ", "b", "a", "r", ".", "i", "d", " ", " ", "2", ".", "0">>, <<"-", "-", "-", "-", "-">>,
   <<"N", "a", "m", "e", "s", " ", "x">>, <<>>}

\* what an outdated command prints: the lines, each ended by a newline
Listings(pool) == {Output(JoinLines(ls \o <<<<>>>>)) : ls \in SeqsUpTo(pool, MaxLines)}

ExistsOutcomes == {Failed, Output(<<>>), Output(<<"/", "b", "i", "n", "/", "t", "o", "o", "l", "NL">>)}

UpdateOutcomes == {Output(<<>>), Output(<<"L", "a", "b", "e", "l", ":", " ", "m", "a", "c", "O", "S", " ", "1", "5", ".", "1", "NL">>)}

NoListing == [spawned |-> FALSE, stdout |-> <<"-">>]

\* line.split()[0] of the lines after the first that are not blank
RECURSIVE ChocoNames(_)
ChocoNames(lines) ==
  IF lines = <<>> THEN <<>>
  ELSE IF Strip(Head(lines)) # <<>>
  THEN <<SplitWS(Head(lines))[1]>> \o ChocoNames(Tail(lines))
  ELSE ChocoNames(Tail(lines))

choco_outdated_list(out) ==
  LET choco_outdated == run_command(out)
  IN IF Truthy(choco_outdated)
     THEN Return(ChocoNames(Tail(SplitLines(choco_outdated.s))))
     ELSE Return(<<>>)

\* the index (from 0) of the first line that, stripped, starts with "Name";
\* 0 when there is none
HeaderIdx(lines) ==
  LET IsHeader(i) == StartsWith(Strip(lines[i]), <<"N", "a", "m", "e">>)
  IN IF \E i \in 1..Len(lines) : IsHeader(i)
     THEN (CHOOSE i \in 1..Len(lines) : IsHeader(i) /\ \A j \in 1..(i - 1) : ~IsHeader(j)) - 1
     ELSE 0

\* l.split()[1] of the lines that are not blank: IndexError on a line of one token
RECURSIVE WingetIds(_)
WingetIds(lines) ==
  IF lines = <<>> THEN Return(<<>>)
  ELSE IF Strip(Head(lines)) = <<>> THEN WingetIds(Tail(lines))
  ELSE IF Len(SplitWS(Head(lines))) < 2 THEN Raise("IndexError")
  ELSE LET rest == WingetIds(Tail(lines))
       IN IF rest.exc # "none" THEN rest
          ELSE Return(<<SplitWS(Head(lines))[2]>> \o rest.val)

winget_outdated_list(out) ==
  LET winget_outdated == run_command(out)
      lines == SplitLines(winget_outdated.s)
  IN IF winget_outdated = NoneV THEN Raise("AttributeError")
     ELSE IF Len(lines) > 1
     THEN WingetIds(SubSeq(lines, HeaderIdx(lines) + 2, Len(lines)))
     ELSE Return(<<>>)

brew_outdated_list(out) ==
  LET brew_outdated == run_command(out)
  IN IF Truthy(brew_outdated) THEN Return(SplitLines(brew_outdated.s)) ELSE Return(<<>>)

NoUpd ==
  [ brew_exists |-> NoneV, choco_exists |-> NoneV, winget_exists |-> NoneV,
    system_updates |-> NoneV, pkg_mgr |-> "None", listing |-> NoListing,
    outdated_list |-> <<>>, entered |-> NoneV ]

\* the platform's package manager and the command whose listing is parsed
PkgMgr(choco_exists, winget_exists) ==
  IF IS_WIN /\ Truthy(choco_exists) THEN "choco"
  ELSE IF IS_WIN /\ Truthy(winget_exists) THEN "winget"
  ELSE "None"

ListingRun(brew_exists, choco_exists, winget_exists) ==
  IF IS_MAC THEN (IF Truthy(brew_exists) THEN "brew" ELSE "None")
  ELSE PkgMgr(choco_exists, winget_exists)

ListingOutcomes(cmd) ==
  IF cmd = "brew" THEN Listings(BrewLines) \cup {Failed}
  ELSE IF cmd = "choco" THEN Listings(ChocoLines) \cup {Failed}
  ELSE IF cmd = "winget" THEN Listings(WingetLines) \cup {Failed}
  ELSE {NoListing}

ParseListing(cmd, out) ==
  IF cmd = "brew" THEN brew_outdated_list(out)
  ELSE IF cmd = "choco" THEN choco_outdated_list(out)
  ELSE IF cmd = "winget" THEN winget_outdated_list(out)
  ELSE Return(<<>>)

\* the block under the spinner; an exception goes to the handler of the
\* function, which prints it and returns
gather_updates ==
  /\ pc = "dispatch" /\ choice = "4"
  /\ \E b \in (IF IS_MAC THEN ExistsOutcomes ELSE {Failed}),
        c \in (IF IS_WIN THEN ExistsOutcomes ELSE {Failed}),
        w \in (IF IS_WIN THEN ExistsOutcomes ELSE {Failed}),
        u \in (IF IS_MAC THEN UpdateOutcomes ELSE {Failed}) :
       LET cmd == ListingRun(run_command(b), run_command(c), run_command(w))
       IN \E out \in ListingOutcomes(cmd) :
            LET r == ParseListing(cmd, out)
            IN /\ upd' = [ brew_exists |-> run_command(b), choco_exists |-> run_command(c),
                           winget_exists |-> run_command(w), system_updates |-> run_command(u),
                           pkg_mgr |-> PkgMgr(run_command(c), run_command(w)),
                           listing |-> out,
                           outdated_list |-> IF r.exc = "none" THEN r.val ELSE <<>>,
                           entered |-> NoneV ]
               /\ IF r.exc = "none"
                  THEN pc' = "updates_gathered" /\ rendered' = <<>>
                  ELSE /\ pc' = "menu"
                       /\ rendered' = <<Msg("Failed to check system updates", <<>>)>>
  /\ UNCHANGED <<platform, choice, exc, executed, sized, sumVars, mon>>

\* the spinner's block is left: the listing is not read again
spinner_ends ==
  /\ pc = "updates_gathered"
  /\ upd' = [upd EXCEPT !.listing = NoListing]
  /\ pc' = "updates_interact"
  /\ UNCHANGED <<platform, choice, exc, outVars, sumVars, mon>>

-----------------------------------------------------------------------------
(* check_system_updates: the selection and the upgrades *)

MaxTokens == 2

ChoiceTokens == {<<" ", "A", " ">>, <<"n">>, <<"1">>, <<" ", "2", " ">>, <<"0">>, <<"sup2">>}

RECURSIVE JoinComma(_)
JoinComma(ts) ==
  IF ts = <<>> THEN <<>>
  ELSE IF Len(ts) = 1 THEN ts[1]
  ELSE ts[1] \o <<",">> \o JoinComma(Tail(ts))

\* the strings typed at the selection prompt
UpgradeChoices == {JoinComma(ts) : ts \in SeqsUpTo(ChoiceTokens, MaxTokens) \ {<<>>}}

\* [int(i.strip()) for i in tokens if i.strip().isdigit()]: int raises
\* ValueError on a digit that is no decimal
RECURSIVE Indices(_)
Indices(tokens) ==
  IF tokens = <<>> THEN Return(<<>>)
  ELSE LET t == Strip(Head(tokens))
           rest == Indices(Tail(tokens))
       IN IF ~IsDigit(t) THEN rest
          ELSE IF ~IntOK(t) THEN Raise("ValueError")
          ELSE IF rest.exc # "none" THEN rest
          ELSE Return(<<IntVal(t)>> \o rest.val)

\* [outdated_list[i-1] for i in indices if 0 < i <= len(outdated_list)]
RECURSIVE SelectedPkgs(_, _)
SelectedPkgs(indices, outdated_list) ==
  IF indices = <<>> THEN <<>>
  ELSE (IF 0 < Head(indices) /\ Head(indices) <= Len(outdated_list)
        THEN <<outdated_list[Head(indices)]>> ELSE <<>>)
       \o SelectedPkgs(Tail(indices), outdated_list)

UpgradeAllCmd(mgr) ==
  IF mgr = "brew" THEN "brew upgrade"
  ELSE IF mgr = "choco" THEN "choco upgrade all -y"
  ELSE "winget upgrade --all --silent"

UpgradeOneCmd(mgr) ==
  IF mgr = "brew" THEN "brew upgrade <pkg>"
  ELSE IF mgr = "choco" THEN "choco upgrade <pkg> -y"
  ELSE "winget upgrade --id <pkg> --silent"

\* what follows the upgrade command of one package
AfterUpgrade(pkg, st) == <<Msg("upgraded!", pkg)>>

\* the loop over the selected packages; st is the exit status of the commands
RECURSIVE UpgradeEach(_, _, _)
UpgradeEach(mgr, pkgs, st) ==
  IF pkgs = <<>> THEN [rendered |-> <<>>, executed |-> <<>>]
  ELSE LET t == UpgradeEach(mgr, Tail(pkgs), st)
       IN [ rendered |-> AfterUpgrade(Head(pkgs), st) \o t.rendered,
            executed |-> <<Cmd(UpgradeOneCmd(mgr), Head(pkgs), st)>> \o t.executed ]

\* from the selection prompt to the end of its if statement
upgrade_selection(mgr, outdated_list, entered, st) ==
  LET upgrade_choice == Lower(Strip(entered))
      indices == Indices(SplitOn(upgrade_choice, ","))
      selected_pkgs == SelectedPkgs(indices.val, outdated_list)
      each == UpgradeEach(mgr, selected_pkgs, st)
  IN IF upgrade_choice = <<"a">>
     THEN [ rendered |-> <<Msg("All packages upgraded!", <<>>)>>,
            executed |-> <<Cmd(UpgradeAllCmd(mgr), <<>>, st)>> ]
     ELSE IF upgrade_choice = <<"n">>
     THEN [rendered |-> <<Msg("No packages upgraded.", <<>>)>>, executed |-> <<>>]
     ELSE IF indices.exc # "none"
     THEN [rendered |-> <<Msg("Error parsing selection", <<>>)>>, executed |-> <<>>]
     ELSE IF selected_pkgs # <<>>
     THEN [ rendered |-> each.rendered \o <<Msg("Selected packages upgraded!", <<>>)>>,
            executed |-> each.executed ]
     ELSE [rendered |-> <<Msg("No valid packages selected.", <<>>)>>, executed |-> <<>>]

PreviewLimit == 5

Min(a, b) == IF a < b THEN a ELSE b

\* the preview table, the total, and the full table when asked for
ShowOutdated(outdated_list, see_all) ==
  << Msg("Outdated Packages (showing up to 5)", IntStr(Min(Len(outdated_list), PreviewLimit))),
     Msg("Total outdated packages", IntStr(Len(outdated_list))) >>
  \o IF Len(outdated_list) > PreviewLimit /\ see_all = "y"
     THEN <<Msg("All Outdated Packages", IntStr(Len(outdated_list)))>>
     ELSE <<>>

\* the selection prompt is reached
SelectionReached ==
  \/ IS_MAC /\ Truthy(upd.brew_exists) /\ upd.outdated_list # <<>>
  \/ /\ IS_WIN /\ (Truthy(upd.choco_exists) \/ Truthy(upd.winget_exists))
     /\ upd.pkg_mgr # "None" /\ upd.outdated_list # <<>>

\* what is printed when the selection prompt is not reached
NothingToSelect ==
  IF IS_MAC
  THEN IF ~Truthy(upd.brew_exists)
       THEN <<Msg("Homebrew is not installed. Skipping Homebrew updates.", <<>>)>>
       ELSE <<Msg("Homebrew is up to date.", <<>>)>>
  ELSE IF IS_WIN
  THEN IF ~(Truthy(upd.choco_exists) \/ Truthy(upd.winget_exists))
       THEN <<Msg("Neither Chocolatey nor Winget is installed. Skipping package updates.", <<>>)>>
       ELSE IF upd.pkg_mgr # "None" THEN <<Msg("is up to date.", <<>>)>>
       ELSE <<Msg("No package manager detected for updates.", <<>>)>>
  ELSE <<>>

\* printed before and after the package manager's part
UpdatesPrologue ==
  IF IS_MAC
  THEN IF Truthy(upd.system_updates) THEN <<Msg("System updates available", upd.system_updates.s)>>
       ELSE <<Msg("Your macOS is up to date.", <<>>)>>
  ELSE <<>>

UpdatesEpilogue ==
  IF IS_WIN THEN <<Msg("Please check Windows Update in Settings manually.", <<>>)>> ELSE <<>>

\* after the spinner
interact_updates ==
  /\ pc = "updates_interact"
  /\ IF SelectionReached
     THEN \E entered \in UpgradeChoices, st \in {0, 1},
             see_all \in (IF Len(upd.outdated_list) > PreviewLimit THEN {"y", "n"} ELSE {"n"}) :
            LET mgr == IF IS_MAC THEN "brew" ELSE upd.pkg_mgr
                r == upgrade_selection(mgr, upd.outdated_list, entered, st)
            IN /\ rendered' = UpdatesPrologue \o ShowOutdated(upd.outdated_list, see_all)
                                \o r.rendered \o UpdatesEpilogue
               /\ executed' = r.executed
               /\ upd' = [upd EXCEPT !.entered = Str(entered)]
     ELSE /\ rendered' = UpdatesPrologue \o NothingToSelect \o UpdatesEpilogue
          /\ executed' = <<>>
          /\ upd' = upd
  /\ pc' = "menu"
  /\ UNCHANGED <<platform, choice, exc, sized, sumVars, mon>>

\* console.input raises EOFError at the selection prompt: the handler of the
\* function (on Windows, of the package manager's part) prints it
updates_input_fails ==
  /\ pc = "updates_interact" /\ SelectionReached
  /\ rendered' = UpdatesPrologue \o ShowOutdated(upd.outdated_list, "n")
                   \o (IF IS_WIN THEN <<Msg("Error displaying or upgrading packages", <<>>)>>
                       ELSE <<Msg("Failed to check system updates", <<>>)>>)
                   \o UpdatesEpilogue
  /\ upd' = upd
  /\ pc' = "menu"
  /\ UNCHANGED <<platform, choice, exc, executed, sized, sumVars, mon>>

-----------------------------------------------------------------------------
(* monitor_usage and kill_process *)

MaxProcLines == 2

MacProcLines ==
  {<<"u", " ", "7", "1", " ", "9", ".", "0", " ", "1", ".", "0", " ", "5", " ", "6", " ", "?", " ", "S", " ", "9", "A", "M", " ", "0", ":", "0", "1", " ", "/", "b", "i", "n", "/", "a">>, <<"r", " ", "8", " ", "2", ".", "5", " ", "3", ".", "0", " ", "5", " ", "6", " ", "?", " ", "S", " ", "9", "A", "M", " ", "0", ":", "0", "2", " ", "/", "b", "i", "n", "/", "b", " ", "-", "x">>,
   <<"w", " ", "5", " ", "0", ".", "0", " ", "0", ".", "0", " ", "1", " ", "2", " ", "?", " ", "S", " ", "9", "A", "M", " ", "0", ":", "0", "0">>, <<>>}

WinProcLines ==
  {<<"c", "h", "r", "o", "m", "e", " ", "1", "2", "3", " ", "5">>, <<"N", "a", "m", "e", " ", "I", "D", "P", "r", "o", "c", "e", "s", "s", " ", "P", "e", "r", "c", "e", "n", "t", "P", "r", "o", "c", "e", "s", "s", "o", "r", "T", "i", "m", "e">>, <<"I", "d", "l", "e", " ", "0">>, <<"S", "y", "s", "t", "e", "m", " ", "4", " ", "0", " ", "x">>}

\* what a process listing command prints
ProcListings(pool) ==
  {Output(JoinLines(ls \o <<<<>>>>)) : ls \in SeqsUpTo(pool, MaxProcLines)} \cup {Failed}

StatsOutcomes ==
  IF IS_MAC THEN ProcListings(MacProcLines)
  ELSE IF IS_WIN THEN ProcListings(WinProcLines)
  ELSE {NoListing}

\* the test without isdigit() on the Windows pid: C10 fails with it
ShapeOKWithoutIsDigit(parts) ==
  IF IS_MAC THEN Len(parts) > 10 ELSE Len(parts) >= 3

\* the test a line's fields pass to give a record
ShapeOK(parts) ==
  IF IS_MAC THEN Len(parts) > 10
  ELSE Len(parts) >= 3 /\ IsDigit(parts[2])

\* the record's fields, from 1: pid is parts[1], the label parts[10] or parts[0]
PidOf(parts) == parts[2]

LabelOf(parts) == IF IS_MAC THEN parts[11] ELSE parts[1]

\* the metric shown: CPU is parts[2]; memory is parts[3] on the Mac, parts[2] on Windows
MetricOf(parts, kind) == IF IS_MAC /\ kind = "mem" THEN parts[4] ELSE parts[3]

\* the loop over enumerate(stats.splitlines()): the row added for each line
\* that passes, numbered idx + 1
RECURSIVE ProcRows(_, _, _)
ProcRows(lines, idx, kind) ==
  IF lines = <<>> THEN <<>>
  ELSE LET parts == SplitWS(Head(lines))
       IN (IF ShapeOK(parts)
           THEN << [ num |-> IntStr(idx + 1), pid |-> PidOf(parts), label |-> LabelOf(parts),
                     metric |-> MetricOf(parts, kind) ] >>
           ELSE <<>>)
          \o ProcRows(Tail(lines), idx + 1, kind)

\* the (pid, label) pairs appended along with the rows
ProcList(rows) == [i \in 1..Len(rows) |-> [pid |-> rows[i].pid, label |-> rows[i].label]]

\* the rows of one table; no loop runs on another platform
ParseStats(stats, kind) ==
  IF IS_MAC \/ IS_WIN THEN ProcRows(SplitLines(stats.s), 0, kind) ELSE <<>>

NoMon ==
  [ cpu_stats |-> NoListing, mem_stats |-> NoListing, cpu_list |-> <<>>, mem_list |-> <<>>,
    cpu_table |-> <<>>, mem_table |-> <<>>, action |-> NoneV, idx |-> NoneV ]

\* the probes and the two parsing loops; splitlines on None raises
gather_usage ==
  /\ pc = "dispatch" /\ choice = "3"
  /\ \E c \in StatsOutcomes, m \in StatsOutcomes :
       LET cpu_stats == IF IS_MAC \/ IS_WIN THEN run_command(c) ELSE Str(<<>>)
           mem_stats == IF IS_MAC \/ IS_WIN THEN run_command(m) ELSE Str(<<>>)
           raised == cpu_stats = NoneV \/ mem_stats = NoneV
       IN /\ mon' = [ cpu_stats |-> c, mem_stats |-> m,
                      cpu_list |-> IF raised THEN <<>> ELSE ProcList(ParseStats(cpu_stats, "cpu")),
                      mem_list |-> IF raised THEN <<>> ELSE ProcList(ParseStats(mem_stats, "mem")),
                      cpu_table |-> IF raised THEN <<>> ELSE ParseStats(cpu_stats, "cpu"),
                      mem_table |-> IF raised THEN <<>> ELSE ParseStats(mem_stats, "mem"),
                      action |-> NoneV, idx |-> NoneV ]
          /\ IF raised
             THEN pc' = "menu" /\ rendered' = <<Msg("Failed to check the system usage", <<>>)>>
             ELSE pc' = "monitor_parsed" /\ rendered' = <<>>
  /\ UNCHANGED <<platform, choice, exc, executed, sized, sumVars, upd>>

\* the tables and the three choices are printed: the listings are not read again
print_usage ==
  /\ pc = "monitor_parsed"
  /\ mon' = [mon EXCEPT !.cpu_stats = NoListing, !.mem_stats = NoListing]
  /\ rendered' = <<Msg("System Resource Usage", <<>>), Msg("Select a process to kill:", <<>>)>>
  /\ pc' = "monitor_prompt"
  /\ UNCHANGED <<platform, choice, exc, executed, sized, sumVars, upd>>

ActionInputs == {<<"1">>, <<"2">>, <<"3">>, <<" ", "1">>, <<>>}

IdxInputs == {<<"1">>, <<"2">>, <<"3">>, <<"0">>, <<"x">>, <<"sup2">>, <<" ", "1">>}

\* os.system then the message, whatever the exit status st
kill_process(pid, st) ==
  [ rendered |-> <<Msg("Process killed.", pid)>>,
    executed |-> <<Cmd(IF IS_WIN THEN "taskkill /PID <pid> /F" ELSE "kill -9 <pid>", pid, st)>> ]

\* the range test without its lower bound, where list[-1] is the last record:
\* C11 fails with it
KillFromWithoutLowerBound(list, idx, st) ==
  IF ~IsDigit(idx) THEN [exc |-> "none", rendered |-> <<>>, executed |-> <<>>]
  ELSE IF ~IntOK(idx) THEN [exc |-> "ValueError", rendered |-> <<>>, executed |-> <<>>]
  ELSE IF IntVal(idx) <= Len(list)
  THEN [exc |-> "none"]
       @@ kill_process(list[IF IntVal(idx) = 0 THEN Len(list) ELSE IntVal(idx)].pid, st)
  ELSE [exc |-> "none", rendered |-> <<>>, executed |-> <<>>]

\* the number typed for a list: int raises ValueError on a digit that is no decimal
KillFrom(list, idx, st) ==
  IF ~IsDigit(idx) THEN [exc |-> "none", rendered |-> <<>>, executed |-> <<>>]
  ELSE IF ~IntOK(idx) THEN [exc |-> "ValueError", rendered |-> <<>>, executed |-> <<>>]
  ELSE IF 1 <= IntVal(idx) /\ IntVal(idx) <= Len(list)
  THEN [exc |-> "none"] @@ kill_process(list[IntVal(idx)].pid, st)
  ELSE [exc |-> "none", rendered |-> <<>>, executed |-> <<>>]

\* which list the action asks a number for
ListAsked(action) ==
  IF action = <<"1">> /\ mon.cpu_list # <<>> THEN "cpu"
  ELSE IF action = <<"2">> /\ mon.mem_list # <<>> THEN "mem"
  ELSE "none"

prompt_usage ==
  /\ pc = "monitor_prompt"
  /\ \E action \in ActionInputs :
       IF ListAsked(action) = "none"
       THEN /\ rendered' = rendered \o <<Msg("No process killed.", <<>>)>>
            /\ executed' = <<>>
            /\ mon' = [mon EXCEPT !.action = Str(action)]
       ELSE \E idx \in IdxInputs, st \in {0, 1} :
              LET list == IF ListAsked(action) = "cpu" THEN mon.cpu_list ELSE mon.mem_list
                  k == KillFrom(list, idx, st)
              IN /\ rendered' = rendered \o k.rendered
                                  \o IF k.exc = "none" THEN <<>>
                                     ELSE <<Msg("Failed to check the system usage", <<>>)>>
                 /\ executed' = k.executed
                 /\ mon' = [mon EXCEPT !.action = Str(action), !.idx = Str(idx)]
  /\ pc' = "menu"
  /\ UNCHANGED <<platform, choice, exc, sized, sumVars, upd>>

\* console.input raises EOFError at the action prompt
usage_input_fails ==
  /\ pc = "monitor_prompt"
  /\ rendered' = rendered \o <<Msg("Failed to check the system usage", <<>>)>>
  /\ pc' = "menu"
  /\ UNCHANGED <<platform, choice, exc, executed, sized, sumVars, upd, mon>>

-----------------------------------------------------------------------------
(* the menu loop *)

MenuInputs == {"1", "2", "3", "4", "5", "9", ""}

\* a loop that an exception of any kind ends: C7 fails with it
MainLoopHandlerAlwaysBreaks(e) == "done"

\* the except clauses of the loop: where an exception raised in the try
\* block leaves the program
MainLoopHandler(e) == IF e = "KeyboardInterrupt" THEN "done" ELSE "menu"

\* the next iteration starts: what the last one held is gone
display_menu ==
  /\ pc = "menu"
  /\ pc' = "prompt"
  /\ choice' = ""
  /\ exc' = "none"
  /\ rendered' = <<>>
  /\ executed' = <<>>
  /\ sized' = <<>>
  /\ probe' = NoProbe
  /\ table' = <<>>
  /\ battery' = NoBattery
  /\ upd' = NoUpd
  /\ mon' = NoMon
  /\ UNCHANGED platform

\* console.input returns the line typed
ReadChoice ==
  /\ pc = "prompt"
  /\ \E c \in MenuInputs : choice' = c
  /\ pc' = "dispatch"
  /\ UNCHANGED <<platform, exc, outVars, sumVars, upd, mon>>

\* console.input raises: end of input (EOFError) or Ctrl-C
PromptRaises ==
  /\ pc = "prompt"
  /\ \E e \in {"EOFError", "KeyboardInterrupt"} :
       /\ exc' = e
       /\ pc' = MainLoopHandler(e)
       /\ rendered' = <<Msg(IF e = "KeyboardInterrupt" THEN "Interrupted by user. Exiting..."
                            ELSE "An error occurred", <<>>)>>
  /\ UNCHANGED <<platform, choice, executed, sized, sumVars, upd, mon>>

\* Ctrl-C while an operation runs: no operation catches it
OperationInterrupted ==
  /\ \/ pc = "dispatch" /\ choice \in {"1", "2", "3", "4"}
     \/ pc \in {"updates_gathered", "updates_interact", "monitor_parsed", "monitor_prompt"}
  /\ exc' = "KeyboardInterrupt"
  /\ pc' = MainLoopHandler("KeyboardInterrupt")
  /\ rendered' = <<Msg("Interrupted by user. Exiting...", <<>>)>>
  /\ UNCHANGED <<platform, choice, executed, sized, sumVars, upd, mon>>

ExitChoice ==
  /\ pc = "dispatch" /\ choice = "5"
  /\ rendered' = <<Msg("Exiting...", <<>>)>>
  /\ pc' = "done"
  /\ UNCHANGED <<platform, choice, exc, executed, sized, sumVars, upd, mon>>

InvalidChoice ==
  /\ pc = "dispatch" /\ choice \notin {"1", "2", "3", "4", "5"}
  /\ rendered' = <<Msg("Invalid choice, please try again.", <<>>)>>
  /\ pc' = "menu"
  /\ UNCHANGED <<platform, choice, exc, executed, sized, sumVars, upd, mon>>

-----------------------------------------------------------------------------

Init ==
  /\ platform \in Platforms
  /\ pc = "menu"
  /\ choice = ""
  /\ exc = "none"
  /\ rendered = <<>>
  /\ executed = <<>>
  /\ sized = <<>>
  /\ probe = NoProbe
  /\ table = <<>>
  /\ battery = NoBattery
  /\ upd = NoUpd
  /\ mon = NoMon

Next ==
  \/ display_menu
  \/ ReadChoice
  \/ PromptRaises
  \/ OperationInterrupted
  \/ ExitChoice
  \/ InvalidChoice
  \/ system_summary
  \/ clear_cache
  \/ gather_updates
  \/ spinner_ends
  \/ interact_updates
  \/ updates_input_fails
  \/ gather_usage
  \/ print_usage
  \/ prompt_usage
  \/ usage_input_fails

Spec == Init /\ [][Next]_vars

-----------------------------------------------------------------------------
(* the claims *)

HasMsg(m) == \E i \in 1..Len(rendered) : rendered[i].msg = m

\* the k-th least element of a set of numbers
Kth(S, k) == CHOOSE i \in S : Cardinality({j \in S : j <= i}) = k

\* the selection step has run to its end
SelectionDone == pc = "menu" /\ choice = "4" /\ upd.entered # NoneV

\* the tokens of the entered string that are positive integers in the range
ClaimedTokens(c, n) ==
  LET toks == SplitOn(c, ",")
      good == {i \in 1..Len(toks) :
                 /\ IntOK(toks[i])
                 /\ IntVal(toks[i]) >= 1
                 /\ IntVal(toks[i]) <= n}
  IN [k \in 1..Cardinality(good) |-> IntVal(toks[Kth(good, k)])]

\* C1: in the selection step 'a' upgrades all in one command, 'n' upgrades
\* nothing, and any other string upgrades exactly the packages at its tokens
\* that are integers of [1, N], in input order; with no such token nothing is
\* run and "No valid packages selected." is printed; no exception escapes.
C1_SelectionResolves ==
  SelectionDone =>
    LET c == Lower(Strip(upd.entered.s))
        want == ClaimedTokens(c, Len(upd.outdated_list))
    IN /\ exc = "none"
       /\ c = <<"a">> => Len(executed) = 1 /\ executed[1].arg = <<>>
       /\ c = <<"n">> => executed = <<>>
       /\ c \notin {<<"a">>, <<"n">>} =>
            /\ Len(executed) = Len(want)
            /\ \A k \in 1..Len(want) : executed[k].arg = upd.outdated_list[want[k]]
            /\ want = <<>> => HasMsg("No valid packages selected.")

\* the battery probe has run on the Mac
BatteryProbed == IS_MAC /\ choice = "1" /\ pc = "menu" /\ battery.exc # "not called"

\* C2: on the Mac get_battery_health raises nothing; it returns "N/A" when
\* MaxCapacity is absent, empty or not a number, or DesignCapacity is absent,
\* does not parse or is 0, and 100*max/design with two decimals and a '%'
\* for a numeric pair with DesignCapacity > 0.
C2_BatteryHealthTotal ==
  BatteryProbed =>
    LET max == run_command(probe.max_capacity)
        data == run_command(probe.design_capacity)
        design == ReSearchDesign(data.s)
        numeric == Truthy(max) /\ IntOK(max.s) /\ data # NoneV /\ design.found
    IN /\ battery.exc = "none"
       /\ IF numeric /\ IntVal(design.group1) > 0
          THEN battery.val = Str(FormatHealth(IntVal(max.s), IntVal(design.group1)))
          ELSE battery.val = Str(NA)

\* a choco listing has been parsed
ChocoParsed == IS_WIN /\ pc = "updates_gathered" /\ upd.pkg_mgr = "choco"

\* a line name|version|available
IsPipeLine(l) ==
  /\ Cardinality({i \in 1..Len(l) : l[i] = "|"}) = 2
  /\ \A i \in 1..Len(l) : ~IsSpace(l[i])
  /\ \A t \in {SplitOn(l, "|")[j] : j \in 1..3} : t # <<>>

\* C3: for a choco listing of a header line and pipe-delimited data lines
\* name|version|available, the outdated list is the names of the data lines,
\* in order, without the header.
C3_ChocoPipeNames ==
  ChocoParsed =>
    LET lines == SplitLines(run_command(upd.listing).s)
    IN (Len(lines) >= 2 /\ \A i \in 1..Len(lines) : IsPipeLine(lines[i])) =>
         upd.outdated_list = [i \in 1..(Len(lines) - 1) |-> SplitOn(lines[i + 1], "|")[1]]

\* winget upgrade has been run and has printed a listing
WingetListed ==
  /\ IS_WIN /\ choice = "4" /\ upd.pkg_mgr = "winget"
  /\ pc \in {"updates_gathered", "menu"}
  /\ upd.listing.spawned

\* the lines of the listing whose first token is "Name"
NameHeaders(lines) ==
  {i \in 1..Len(lines) : SplitWS(lines[i]) # <<>> /\ SplitWS(lines[i])[1] = <<"N", "a", "m", "e">>}

\* the lines after line h that have a token
AfterHeader(lines, h) == {i \in (h + 1)..Len(lines) : SplitWS(lines[i]) # <<>>}

\* C4: for a winget listing with a header line whose first token is "Name",
\* the outdated list is the second token of each non-empty line after the
\* header, in order.
C4_WingetSecondTokens ==
  WingetListed =>
    LET lines == SplitLines(run_command(upd.listing).s)
        h == Kth(NameHeaders(lines), 1)
        data == AfterHeader(lines, h)
    IN NameHeaders(lines) # {} =>
         /\ pc = "updates_gathered"
         /\ Len(upd.outdated_list) = Cardinality(data)
         /\ \A k \in 1..Cardinality(data) :
              /\ Len(SplitWS(lines[Kth(data, k)])) >= 2
              /\ upd.outdated_list[k] = SplitWS(lines[Kth(data, k)])[2]

\* C5: a non-empty line with fewer tokens than the rule needs is skipped:
\* the names of the other lines are returned, nothing is raised and no error
\* message is printed.
C5_ShortLinesSkipped ==
  WingetListed =>
    LET lines == SplitLines(run_command(upd.listing).s)
        data == {i \in AfterHeader(lines, HeaderIdx(lines) + 1) : Len(SplitWS(lines[i])) >= 2}
    IN Len(lines) > 1 =>
         /\ pc = "updates_gathered"
         /\ ~HasMsg("Failed to check system updates")
         /\ upd.outdated_list = [k \in 1..Cardinality(data) |-> SplitWS(lines[Kth(data, k)])[2]]

\* the summary has run to its end
SummaryDone == choice = "1" /\ pc = "menu"

\* the source command of a metric failed or printed nothing
Unavailable(o) == ~o.spawned \/ Strip(o.stdout) = <<>>

\* C6: the summary table always has its five rows, and uptime, free disk,
\* free RAM and CPU temperature are each "N/A" on another platform and
\* whenever the source command fails or prints nothing.
C6_SummaryDegradesToNA ==
  SummaryDone =>
    /\ Len(table) = 5
    /\ Unavailable(probe.uptime) => table[1].value = NA
    /\ Unavailable(probe.free_disk) => table[2].value = NA
    /\ Unavailable(probe.free_ram) => table[3].value = NA
    /\ Unavailable(probe.cpu_temp) => table[5].value = NA

\* how far into an iteration the program is
Stage(p) ==
  CASE p = "menu" -> 0
    [] p = "prompt" -> 1
    [] p = "dispatch" -> 2
    [] p \in {"updates_gathered", "monitor_parsed"} -> 3
    [] p \in {"updates_interact", "monitor_prompt"} -> 4
    [] p = "done" -> 5

\* C7: the menu loop ends if and only if the choice is "5" or an interrupt
\* occurs, at the prompt or during an operation; after any other choice and
\* after any failure the iteration goes on to its end and the menu is shown
\* again.
C7_LoopEndsOnlyOnExitOrInterrupt ==
  /\ [](pc # "done" => ENABLED Next)
  /\ [][ /\ pc' = "done" <=> (pc = "dispatch" /\ choice = "5") \/ exc' = "KeyboardInterrupt"
         /\ pc' # "done" => pc' = "menu" \/ Stage(pc') > Stage(pc) ]_vars

C7_Witness == pc = "done" /\ exc = "KeyboardInterrupt" /\ choice = "3"

\* the messages that report an item as done
SuccessMsgs == {"upgraded!", "Process killed."}

\* C8: when the upgrade command of a selected package or the kill command of
\* a process exits unsuccessfully, the success message of that item is not
\* printed.
C8_FailureNotReportedAsSuccess ==
  \A i \in 1..Len(executed) :
    (executed[i].status # 0 /\ executed[i].arg # <<>>) =>
      ~\E j \in 1..Len(rendered) :
          rendered[j].msg \in SuccessMsgs /\ rendered[j].arg = executed[i].arg

\* Clear Cache has run to its end
ClearDone == choice = "2" /\ pc = "menu"

\* C9: on a platform that is neither Mac nor Windows, Clear Cache runs no
\* deletion command and no size probe and prints no error message.
C9_ClearCacheNoOpElsewhere ==
  (ClearDone /\ ~IS_MAC /\ ~IS_WIN) => executed = <<>> /\ sized = <<>> /\ rendered = <<>>

C9_Witness == ClearDone /\ platform = "Other"

\* the shape a line must have, by platform, with its pid and label
ClaimedShape(parts) ==
  IF IS_MAC THEN Len(parts) > 10 ELSE Len(parts) >= 3 /\ IsDigit(parts[2])

ClaimedRecord(parts) ==
  [pid |-> parts[2], label |-> IF IS_MAC THEN parts[11] ELSE parts[1]]

\* list holds one record for each line of stats of the claimed shape, in order
RecordsOf(list, stats) ==
  LET lines == SplitLines(run_command(stats).s)
      good == {i \in 1..Len(lines) : ClaimedShape(SplitWS(lines[i]))}
  IN /\ Len(list) = Cardinality(good)
     /\ \A k \in 1..Len(list) : list[k] = ClaimedRecord(SplitWS(lines[Kth(good, k)]))

\* both listings were obtained
UsageListed ==
  /\ choice = "3" /\ (IS_MAC \/ IS_WIN)
  /\ pc \in {"monitor_parsed", "menu"}
  /\ mon.cpu_stats.spawned /\ mon.mem_stats.spawned

\* C10: the CPU list and the memory list hold, in order, one record for each
\* line of the platform's shape (Mac: more than 10 fields; Windows: at least
\* 3 fields and a numeric second field); another line gives no record, raises
\* nothing and does not stop the parsing of the lines after it.
C10_OneRecordPerShapedLine ==
  UsageListed =>
    /\ pc = "monitor_parsed"
    /\ RecordsOf(mon.cpu_list, mon.cpu_stats)
    /\ RecordsOf(mon.mem_list, mon.mem_stats)

\* a line without the shape comes before a line that gives a record
C10_Witness ==
  /\ UsageListed /\ pc = "monitor_parsed"
  /\ Len(mon.cpu_list) = 1
  /\ Len(SplitLines(run_command(mon.cpu_stats).s)) = 2
  /\ ~ClaimedShape(SplitWS(SplitLines(run_command(mon.cpu_stats).s)[1]))

\* the kill commands
KillCmds == {"kill -9 <pid>", "taskkill /PID <pid> /F"}

\* a string of decimal digits
DigitString(s) == s # <<>> /\ \A i \in 1..Len(s) : s[i] \in DecimalChars

\* the list the action names: CPU for "1", memory for "2"
ListNamed(action) == IF action = Str(<<"1">>) THEN mon.cpu_list ELSE mon.mem_list

\* C11: in one run of monitor_usage at most one kill command is executed, and
\* only when the action entered is "1" or "2", the list it names is not
\* empty and the number entered is a digit string from 1 to the length of
\* that list; the pid killed is the pid of the record at that position. With
\* any other input no kill command is executed.
C11_KillOnlyTheSelected ==
  choice = "3" =>
    /\ Len(executed) <= 1
    /\ executed # <<>> =>
         /\ mon.action \in {Str(<<"1">>), Str(<<"2">>)}
         /\ ListNamed(mon.action) # <<>>
         /\ mon.idx.t = "str" /\ DigitString(mon.idx.s)
         /\ DecimalValue(mon.idx.s) \in 1..Len(ListNamed(mon.action))
         /\ executed[1].cmd \in KillCmds
         /\ executed[1].arg = ListNamed(mon.action)[DecimalValue(mon.idx.s)].pid

\* the second record of the memory list was killed
C11_Witness ==
  /\ choice = "3" /\ pc = "menu"
  /\ mon.action = Str(<<"2">>) /\ mon.idx = Str(<<"2">>)
  /\ Len(mon.mem_list) = 2 /\ mon.mem_list[1].pid # mon.mem_list[2].pid
  /\ Len(executed) = 1 /\ executed[1].arg = mon.mem_list[2].pid

\* the table shown beside the list the action names
TableNamed(action) == IF action = Str(<<"1">>) THEN mon.cpu_table ELSE mon.mem_table

\* the number of every row of the table is the row's position in the list
NumberIsPosition(tbl, list) ==
  /\ Len(tbl) = Len(list)
  /\ \A i \in 1..Len(tbl) : tbl[i].num = IntStr(i) /\ tbl[i].pid = list[i].pid

\* C12: for every process listing, lines dropped by the shape test included,
\* the number shown in the "#" column of a row of the CPU or memory table is
\* the row's position in cpu_list / mem_list, the number to enter to kill
\* that row's process; entering the number shown beside a process never
\* kills another process.
C12_NumberShownIsNumberToEnter ==
  choice = "3" =>
    /\ NumberIsPosition(mon.cpu_table, mon.cpu_list)
    /\ NumberIsPosition(mon.mem_table, mon.mem_list)
    /\ executed # <<>> =>
         \A i \in 1..Len(TableNamed(mon.action)) :
           TableNamed(mon.action)[i].num = mon.idx.s =>
             executed[1].arg = TableNamed(mon.action)[i].pid

====
